---- MODULE Spec2Model ----
(***************************************************************************)
(* Model of ppdates.py: the federal biweekly pay-period calendar.          *)
(*                                                                         *)
(* A datetime.date is modelled by its proleptic Gregorian ordinal (the     *)
(* value of date.toordinal(): 0001-01-01 is 1, a Monday), a timedelta by   *)
(* its number of days, and Python's // by \div (both floor).               *)
(* An ordinal n is a Sunday exactly when n % 7 = 0.                        *)
(***************************************************************************)
EXTENDS Integers, Sequences, FiniteSets

VARIABLES
    initial_date,   \* PayCalendar.initial_date (ordinal)
    year_tuple,     \* PayCalendar.year_tuple
    pc,             \* "call": a method is about to run; "done": it returned or raised
    op,             \* the method being called
    arg_year,       \* year argument
    arg_ysd,        \* year_start_date argument (ordinal)
    arg_pp,         \* pay_period_no argument
    arg_date,       \* target_date / start_date argument (ordinal)
    arg_end,        \* endDate argument (ordinal)
    result,         \* outcome of the call
    instances,      \* the PayPeriod objects constructed so far
    date_list,      \* the class attribute PayPeriod.date_list
    generated       \* indexes of the instances on which generate_date_list ran

vars == <<initial_date, year_tuple, pc, op, arg_year, arg_ysd, arg_pp,
          arg_date, arg_end, result, instances, date_list, generated>>

calVars == <<initial_date, year_tuple>>
callVars == <<pc, op, arg_year, arg_ysd, arg_pp, arg_date, arg_end, result>>
objVars == <<instances, date_list, generated>>

-----------------------------------------------------------------------------
(* Bounds of the explored inputs *)

YearMargin == 12        \* years tried on each side of the valid window
PeriodsBelowOne == 2    \* pay_period_no values tried below 1
MaxPeriodInput == 29    \* largest pay_period_no tried
MaxDaysBefore == 16     \* target dates tried up to this many days before a year start
MaxDaysAfter == 380     \* ... and up to this many days after it
MaxDateYears == 24      \* date-taking methods are tried on this many years after the anchor's
MaxRangeBefore == 9     \* range start dates tried up to this many days before a year start
MaxRangeAfter == 29     \* ... and up to this many days after it
MaxSpan == 29           \* endDate is tried up to this many days after start_date
MaxInstances == 3       \* PayPeriod objects alive at once
MaxPeriodObjects == 4   \* PayPeriod objects are built for periods 1..MaxPeriodObjects

-----------------------------------------------------------------------------
(* datetime.date *)

IsLeap(y) == (y % 4 = 0) /\ ((y % 100 # 0) \/ (y % 400 = 0))

DaysBeforeYear(y) ==
    LET p == y - 1 IN 365 * p + (p \div 4) - (p \div 100) + (p \div 400)

DaysInMonth(y, m) ==
    IF m = 2 THEN (IF IsLeap(y) THEN 29 ELSE 28)
    ELSE IF m \in {4, 6, 9, 11} THEN 30 ELSE 31

RECURSIVE DaysBeforeMonth(_, _)
DaysBeforeMonth(y, m) ==
    IF m <= 1 THEN 0 ELSE DaysBeforeMonth(y, m - 1) + DaysInMonth(y, m - 1)

\* datetime.date(y, m, d).toordinal()
Ymd2Ord(y, m, d) == DaysBeforeYear(y) + DaysBeforeMonth(y, m) + d

\* datetime.date.fromordinal(n).year
YearOf(n) ==
    LET n0   == n - 1
        n400 == n0 \div 146097
        r400 == n0 % 146097
        n100 == r400 \div 36524
        r100 == r400 % 36524
        n4   == r100 \div 1461
        r4   == r100 % 1461
        n1   == r4 \div 365
        year == n400 * 400 + 1 + n100 * 100 + n4 * 4 + n1
    IN  IF n1 = 4 \/ n100 = 4 THEN year - 1 ELSE year

-----------------------------------------------------------------------------
(* Module constants *)

INIT_DATE == Ymd2Ord(1901, 1, 13)

YEARS_WITH_27PPS ==
    << 1911, 1922, 1933, 1944, 1956,
       1967, 1978, 1989, 2000, 2012,
       2023, 2034, 2045, 2056, 2068,
       2079, 2090, 2101, 2112, 2124 >>

-----------------------------------------------------------------------------
(* Outcomes: a returned value, or a raised exception *)

Return(v) == [error |-> "none", year |-> 0, value |-> v]
PayPeriodError == [error |-> "PayPeriodError", year |-> 0, value |-> 0]
YearUnknownError(year) == [error |-> "YearUnknownError", year |-> year, value |-> 0]
NoResult == [error |-> "pending", year |-> 0, value |-> 0]

Raised(r) == r.error # "none"

-----------------------------------------------------------------------------
(* PayCalendar *)

TupleMin(t) == CHOOSE x \in {t[i] : i \in DOMAIN t} : \A j \in DOMAIN t : x <= t[j]
TupleMax(t) == CHOOSE x \in {t[i] : i \in DOMAIN t} : \A j \in DOMAIN t : x >= t[j]

calc_pay_periods_in_year_skip_first(year) ==
    IF \E i \in DOMAIN year_tuple : i > 1 /\ year_tuple[i] = year THEN 27 ELSE 26

calc_pay_periods_in_year(year) ==
    IF \E i \in DOMAIN year_tuple : year_tuple[i] = year THEN 27 ELSE 26

calc_days_in_completed_cycles_20450(year) ==
    ((year - YearOf(initial_date)) \div 56) * 20450

calc_days_in_completed_cycles_20440(year) ==
    ((year - YearOf(initial_date)) \div 56) * 20440

calc_days_in_completed_cycles(year) ==
    ((year - YearOf(initial_date)) \div 56) * 20454

\* the for loop of calc_days_to_add: range(count) is empty when count <= 0
RECURSIVE WalkDays(_, _)
WalkDays(initial_year, count) ==
    IF count <= 0 THEN 0
    ELSE WalkDays(initial_year, count - 1)
         + 14 * calc_pay_periods_in_year(initial_year + (count - 1))

calc_days_to_add_short_walk(year) ==
    LET days_to_add  == calc_days_in_completed_cycles(year)
        start_date   == initial_date + days_to_add
        initial_year == YearOf(start_date)
    IN  days_to_add + WalkDays(initial_year, year - initial_year - 1)

calc_days_to_add(year) ==
    LET days_to_add  == calc_days_in_completed_cycles(year)
        start_date   == initial_date + days_to_add
        initial_year == YearOf(start_date)
    IN  days_to_add + WalkDays(initial_year, year - initial_year)

is_year_in_range_strict(year) ==
    TupleMin(year_tuple) - 10 < year /\ year < TupleMax(year_tuple) + 10

is_year_in_range(year) ==
    TupleMin(year_tuple) - 10 <= year /\ year <= TupleMax(year_tuple) + 10

calc_year_start_date(year) ==
    IF ~is_year_in_range(year) THEN YearUnknownError(year)
    ELSE Return(initial_date + calc_days_to_add(year))

is_pay_period_in_range_exclusive(year, pay_period_no) ==
    1 <= pay_period_no /\ pay_period_no < calc_pay_periods_in_year(year)

is_pay_period_in_range(year, pay_period_no) ==
    1 <= pay_period_no /\ pay_period_no <= calc_pay_periods_in_year(year)

calc_days_between(earlier, later) == later - earlier

calc_completed_pay_periods(days) == days \div 14

calc_pay_period_number(year_start_date, target_date) ==
    LET pay_period_no ==
            calc_completed_pay_periods(calc_days_between(target_date, year_start_date)) + 1
    IN  IF ~is_pay_period_in_range(YearOf(year_start_date), pay_period_no)
        THEN PayPeriodError
        ELSE Return(pay_period_no)

calc_pay_period_start_date(year_start_date, pay_period_no) ==
    IF ~is_pay_period_in_range(YearOf(year_start_date), pay_period_no)
    THEN PayPeriodError
    ELSE Return(year_start_date + (pay_period_no - 1) * 14)

calc_pay_period_start_date_by_date(year_start_date, target_date) ==
    LET number == calc_pay_period_number(year_start_date, target_date)
    IN  IF Raised(number) THEN number
        ELSE calc_pay_period_start_date(year_start_date, number.value)

\* lines 107-108 and 110-111 of generate_pay_period_range: one endpoint
ResolveEndpoint(d) ==
    LET year == calc_year_start_date(YearOf(d))
    IN  IF Raised(year) THEN year
        ELSE calc_pay_period_start_date_by_date(year.value, d)

generate_pay_period_range(start_date, endDate) ==
    LET start == ResolveEndpoint(start_date)
        end   == ResolveEndpoint(endDate)
    IN  IF Raised(start) THEN start
        ELSE IF Raised(end) THEN end
        ELSE LET pay_periods == ((end.value - start.value) \div 14) + 1
             IN  Return([pp \in 1..pay_periods |-> start.value + 14 * (pp - 1)])

-----------------------------------------------------------------------------
(* PayPeriod *)

\* the two lists generate_date_list stores in date_list[0] and date_list[1]
Weeks(start_date) ==
    << [offset \in 1..7 |-> start_date + (offset - 1)],
       [offset \in 1..7 |-> start_date + (offset - 1) + 7] >>

\* self.date_list read through instance i: no method ever binds the instance
\* attribute, so the lookup falls through to the class attribute
DateListOf(i) == date_list

-----------------------------------------------------------------------------
(* Inputs *)

Years ==
    (TupleMin(YEARS_WITH_27PPS) - 10 - YearMargin) ..
    (TupleMax(YEARS_WITH_27PPS) + 10 + YearMargin)

PeriodInputs == (1 - PeriodsBelowOne) .. MaxPeriodInput

\* the years whose start date is handed to the date-taking methods
DateYears ==
    {y \in YearOf(INIT_DATE) .. (YearOf(INIT_DATE) + MaxDateYears) : is_year_in_range(y)}

Constructed ==
    /\ initial_date = INIT_DATE
    /\ year_tuple = YEARS_WITH_27PPS

NoObjects ==
    /\ instances = << >>
    /\ date_list = << << >>, << >> >>
    /\ generated = {}

Init ==
    /\ Constructed
    /\ NoObjects
    /\ pc = "call"
    /\ result = NoResult
    /\ \/ /\ op = "calc_year_start_date"
          /\ arg_year \in Years
          /\ arg_ysd = 0 /\ arg_pp = 0 /\ arg_date = 0 /\ arg_end = 0
       \/ /\ op = "calc_pay_period_start_date"
          /\ arg_year \in {y \in Years : is_year_in_range(y)}
          /\ arg_ysd = calc_year_start_date(arg_year).value
          /\ arg_pp \in PeriodInputs
          /\ arg_date = 0 /\ arg_end = 0
       \/ /\ op \in {"calc_pay_period_number", "calc_pay_period_start_date_by_date"}
          /\ arg_year \in DateYears
          /\ arg_ysd = calc_year_start_date(arg_year).value
          /\ arg_date \in (arg_ysd - MaxDaysBefore) .. (arg_ysd + MaxDaysAfter)
          /\ arg_pp = 0 /\ arg_end = 0
       \/ /\ op = "generate_pay_period_range"
          /\ arg_year \in DateYears
          /\ arg_ysd = calc_year_start_date(arg_year).value
          /\ arg_date \in (arg_ysd - MaxRangeBefore) .. (arg_ysd + MaxRangeAfter)
          /\ arg_end \in arg_date .. (arg_date + MaxSpan)
          /\ arg_pp = 0

-----------------------------------------------------------------------------
(* PayCalendar methods *)

Finish(r) ==
    /\ result' = r
    /\ pc' = "done"
    /\ UNCHANGED <<initial_date, year_tuple, op, arg_year, arg_ysd, arg_pp,
                   arg_date, arg_end, instances, date_list, generated>>

CalcYearStartDate ==
    /\ pc = "call" /\ op = "calc_year_start_date"
    /\ Finish(calc_year_start_date(arg_year))

CalcPayPeriodStartDate ==
    /\ pc = "call" /\ op = "calc_pay_period_start_date"
    /\ Finish(calc_pay_period_start_date(arg_ysd, arg_pp))

CalcPayPeriodNumber ==
    /\ pc = "call" /\ op = "calc_pay_period_number"
    /\ Finish(calc_pay_period_number(arg_ysd, arg_date))

CalcPayPeriodStartDateByDate ==
    /\ pc = "call" /\ op = "calc_pay_period_start_date_by_date"
    /\ Finish(calc_pay_period_start_date_by_date(arg_ysd, arg_date))

GeneratePayPeriodRange ==
    /\ pc = "call" /\ op = "generate_pay_period_range"
    /\ Finish(generate_pay_period_range(arg_date, arg_end))

Next ==
    \/ CalcYearStartDate
    \/ CalcPayPeriodStartDate
    \/ CalcPayPeriodNumber
    \/ CalcPayPeriodStartDateByDate
    \/ GeneratePayPeriodRange

Spec == Init /\ [][Next]_vars

-----------------------------------------------------------------------------
(* PayPeriod objects *)

InitObjects ==
    /\ Constructed
    /\ NoObjects
    /\ pc = "done"
    /\ op = "PayPeriod"
    /\ result = NoResult
    /\ arg_year = 0 /\ arg_ysd = 0 /\ arg_pp = 0 /\ arg_date = 0 /\ arg_end = 0

\* PayPeriod(number + 1, year_start_date + 14 * number), as PayYear builds them
NewPayPeriod ==
    /\ Len(instances) < MaxInstances
    /\ \E number \in 0 .. (MaxPeriodObjects - 1) :
          instances' = Append(instances,
              [id_no |-> number + 1,
               start_date |-> calc_year_start_date(YearOf(initial_date)).value + 14 * number])
    /\ UNCHANGED <<date_list, generated>>
    /\ UNCHANGED calVars
    /\ UNCHANGED callVars

GenerateDateList ==
    /\ \E i \in DOMAIN instances :
          /\ date_list' = [date_list EXCEPT ![1] = Weeks(instances[i].start_date)[1],
                                            ![2] = Weeks(instances[i].start_date)[2]]
          /\ generated' = generated \cup {i}
    /\ UNCHANGED instances
    /\ UNCHANGED calVars
    /\ UNCHANGED callVars

NextObjects ==
    \/ NewPayPeriod
    \/ GenerateDateList

SpecObjects == InitObjects /\ [][NextObjects]_vars

-----------------------------------------------------------------------------
(* Vocabulary of the properties *)

LongYears == {year_tuple[i] : i \in DOMAIN year_tuple}

\* the valid window [min(long years) - 10, max(long years) + 10]
InWindow(y) ==
    /\ \E l \in LongYears : (\A k \in LongYears : l <= k) /\ l - 10 <= y
    /\ \E l \in LongYears : (\A k \in LongYears : k <= l) /\ y <= l + 10

PeriodCount(y) == IF y \in LongYears THEN 27 ELSE 26

\* 14 x the period counts of the years first..last, summed
RECURSIVE PlainAccumulation(_, _)
PlainAccumulation(first, last) ==
    IF last < first THEN 0
    ELSE IF first = last THEN 14 * PeriodCount(first)
    ELSE LET mid == (first + last) \div 2
         IN  PlainAccumulation(first, mid) + PlainAccumulation(mid + 1, last)

Returned(op_name) == pc = "done" /\ op = op_name

\* d lies in the pay year that starts on ys and has n periods
InPayYear(ys, n, d) == ys <= d /\ d < ys + 14 * n

\* the start date of the pay year enclosing d, when that pay year is in the
\* window: the start of d's calendar year, or of the previous one when d
\* precedes it
EnclosingYearStart(d) ==
    LET y == YearOf(d)
        c == initial_date + PlainAccumulation(YearOf(initial_date), y - 1)
    IN  IF d >= c THEN c
        ELSE initial_date + PlainAccumulation(YearOf(initial_date), y - 2)

EnclosingYearInWindow(d) ==
    LET y == YearOf(d)
        c == initial_date + PlainAccumulation(YearOf(initial_date), y - 1)
    IN  InWindow(y) /\ (d < c => InWindow(y - 1))

\* the start date of the pay period enclosing d
EnclosingPeriodStart(d) ==
    LET c == EnclosingYearStart(d) IN c + 14 * ((d - c) \div 14)

ExpectedRange(first, last) ==
    [pp \in 1 .. (((last - first) \div 14) + 1) |-> first + 14 * (pp - 1)]

-----------------------------------------------------------------------------
(* Properties *)

\* C1: round trip. For a valid year with start date ys and a period number p
\* in 1..periods_in_year(year), calc_pay_period_number(ys,
\* calc_pay_period_start_date(ys, p)) returns p.
C1_RoundTrip ==
    Returned("calc_pay_period_number") =>
        \A p \in 1 .. calc_pay_periods_in_year(arg_year) :
            LET s == calc_pay_period_start_date(arg_ysd, p)
            IN  (~Raised(s) /\ arg_date = s.value) => result = Return(p)

\* C2: a date d whose enclosing pay year is in the window resolves to a
\* pay-period start date s with s <= d < s + 14, both when the year start is
\* given (calc_pay_period_start_date_by_date) and when it is looked up from
\* d's calendar year (each endpoint of generate_pay_period_range), early
\* January dates before their own year's start included.
C2_DateResolvesToEnclosingPeriod ==
    /\ (/\ Returned("calc_pay_period_start_date_by_date")
        /\ InPayYear(arg_ysd, PeriodCount(arg_year), arg_date))
       => (/\ ~Raised(result)
           /\ result.value <= arg_date
           /\ arg_date < result.value + 14)
    /\ (/\ Returned("generate_pay_period_range")
        /\ arg_end = arg_date
        /\ EnclosingYearInWindow(arg_date))
       => (/\ ~Raised(result)
           /\ Len(result.value) = 1
           /\ result.value[1] <= arg_date
           /\ arg_date < result.value[1] + 14)

\* C3: for start_date <= endDate in valid years, generate_pay_period_range
\* returns every pay-period start date from the period enclosing start_date to
\* the period enclosing endDate, 14 days apart; generate_pay_period_range(s, s)
\* is [s] for the start date s of any pay period.
C3_RangeListsEnclosingPeriods ==
    (/\ Returned("generate_pay_period_range")
     /\ EnclosingYearInWindow(arg_date)
     /\ EnclosingYearInWindow(arg_end))
    => result = Return(ExpectedRange(EnclosingPeriodStart(arg_date),
                                     EnclosingPeriodStart(arg_end)))

\* C4: with the Sunday anchor and the default long years, the start date of
\* every year in the window is a Sunday, a whole number of weeks from the anchor.
C4_YearStartIsSunday ==
    (Returned("calc_year_start_date") /\ InWindow(arg_year))
    => (/\ ~Raised(result)
        /\ initial_date % 7 = 0
        /\ result.value % 7 = 0
        /\ (result.value - initial_date) % 7 = 0)

C4_Witness ==
    /\ Returned("calc_year_start_date")
    /\ arg_year = 2134
    /\ ~Raised(result)
    /\ result.value % 7 = 0

\* C5: calc_year_start_date(year) raises YearUnknownError carrying year exactly
\* when year is outside [min - 10, max + 10]; it returns a date at min - 10 and
\* max + 10 and raises at min - 11 and max + 11.
C5_YearUnknownIffOutsideWindow ==
    Returned("calc_year_start_date")
    => (/\ result = YearUnknownError(arg_year) <=> ~InWindow(arg_year)
        /\ InWindow(arg_year) => ~Raised(result)
        /\ arg_year \in {1901, 2134} => ~Raised(result)
        /\ arg_year \in {1900, 2135} => result = YearUnknownError(arg_year))

C5_Witness ==
    /\ Returned("calc_year_start_date")
    /\ arg_year = 2135
    /\ result = YearUnknownError(2135)

\* C6: cycle periodicity. When year and year + 56 are both in the window,
\* calc_year_start_date(year + 56) is calc_year_start_date(year) + 20454 days.
C6_CyclePeriodicity ==
    (/\ Returned("calc_year_start_date")
     /\ InWindow(arg_year)
     /\ InWindow(arg_year + 56))
    => (/\ ~Raised(result)
        /\ calc_year_start_date(arg_year + 56) = Return(result.value + 20454))

C6_Witness ==
    /\ Returned("calc_year_start_date")
    /\ arg_year = 1912
    /\ ~Raised(result)
    /\ calc_year_start_date(1968) = Return(result.value + 20454)

\* C7: for a year in the window at or after the anchor's year, the start date
\* is the anchor plus 14 x the period counts of the years from the anchor's up
\* to year - 1: the 56-year shortcut agrees with plain accumulation. With 1911
\* long, 1912 starts (10 x 26 + 27) x 14 = 4018 days after the anchor.
C7_ShortcutAgreesWithAccumulation ==
    (/\ Returned("calc_year_start_date")
     /\ InWindow(arg_year)
     /\ arg_year >= YearOf(initial_date))
    => (/\ result = Return(initial_date
                           + PlainAccumulation(YearOf(initial_date), arg_year - 1))
        /\ arg_year = 1912 => result.value = initial_date + 4018)

C7_Witness ==
    /\ Returned("calc_year_start_date")
    /\ arg_year = 2070
    /\ result = Return(initial_date + PlainAccumulation(1901, 2069))

\* C7 as first stated: the same, with 1912 starting 3766 days after the anchor.
C7_AsStated ==
    (/\ Returned("calc_year_start_date")
     /\ InWindow(arg_year)
     /\ arg_year >= YearOf(initial_date))
    => (/\ result = Return(initial_date
                           + PlainAccumulation(YearOf(initial_date), arg_year - 1))
        /\ arg_year = 1912 => result.value = initial_date + 3766)

\* C8: calc_pay_period_start_date(ys, p) raises PayPeriodError exactly when
\* p < 1 or p > calc_pay_periods_in_year(ys.year) and otherwise returns
\* ys + 14 x (p - 1); p = 27 raises when ys.year is not a long year and
\* returns when it is.
C8_PeriodStartDateOrError ==
    Returned("calc_pay_period_start_date")
    => (/\ result = PayPeriodError
           <=> (arg_pp < 1 \/ arg_pp > calc_pay_periods_in_year(YearOf(arg_ysd)))
        /\ result # PayPeriodError => result = Return(arg_ysd + 14 * (arg_pp - 1))
        /\ arg_pp = 27 => (Raised(result) <=> YearOf(arg_ysd) \notin LongYears))

C8_Witness ==
    /\ Returned("calc_pay_period_start_date")
    /\ arg_pp = 27
    /\ YearOf(arg_ysd) = 1911
    /\ result = Return(arg_ysd + 364)

\* C9: each PayPeriod owns its date sequences. The date_list read through an
\* instance on which generate_date_list has run holds that instance's own
\* start_date + 0..6 and start_date + 7..13, whatever the other instances did.
C9_OwnDateLists ==
    \A i \in generated : DateListOf(i) = Weeks(instances[i].start_date)

\* C10: with the default anchor and long years, the start date of every year
\* in the window lies in that calendar year, so the period count looked up by
\* year_start_date.year is the count of the intended pay year.
C10_YearStartInOwnYear ==
    (Returned("calc_year_start_date") /\ InWindow(arg_year))
    => (/\ ~Raised(result)
        /\ YearOf(result.value) = arg_year
        /\ calc_pay_periods_in_year(YearOf(result.value)) = PeriodCount(arg_year))

C10_Witness ==
    /\ Returned("calc_year_start_date")
    /\ arg_year = 1911
    /\ result = Return(Ymd2Ord(1911, 1, 1))

====
